---- MODULE Spec2Model ----
(***************************************************************************)
(* Streaming TAR reader of src/src/lib.rs: Archive (shared cursor over a   *)
(* seekable byte source), Files (entry iterator) and File (bounded,        *)
(* seekable view of one entry).                                            *)
(*                                                                         *)
(* Bytes are naturals 0..255, byte strings are sequences.  Sequences are   *)
(* 1-based, so the source's byte range [a,b) is SubSeq(s, a+1, b).         *)
(***************************************************************************)
EXTENDS Integers, Sequences, FiniteSets, Bags, TLC

\* ------------------------------------------------------------------------
\* Bounds of the exploration (not program constants)
\* ------------------------------------------------------------------------
\* what one behaviour explores beyond iterating once: each call of File::read
\* or File::seek, each read through the archive itself, each further call of
\* Archive::files and each call in which the underlying source misbehaves (an
\* error or a short read) takes one
MaxOps == 2
\* the same, in the specification that follows views of a reliable source further
MaxDeepOps == 6
\* Files::next calls explored per iterator
MaxNext == 4
\* File views the caller keeps alive at once (further ones are dropped)
MaxViews == 2
\* width of the signed offset type.  The source uses i64; the model keeps
\* the two's-complement wrap at a reduced width, with every entry size far
\* below 2^(IntBits-1) exactly as tar sizes (< 2^36) are far below 2^63.
IntBits == 16

\* ------------------------------------------------------------------------
\* Program constants
\* ------------------------------------------------------------------------
BlockSize == 512
NameEnd == 100
SizeStart == 124
SizeEnd == 136
CksumStart == 148
CksumEnd == 156
CksumPlaceholder == 32 * 8

Min(a, b) == IF a < b THEN a ELSE b

\* the element of a one-element set.  Only({F(x) : x \in {e}}) is F(e) with e
\* evaluated once.
Only(S) == CHOOSE x \in S : TRUE

RECURSIVE Pow2(_)
Pow2(n) == IF n = 0 THEN 1 ELSE 2 * Pow2(n - 1)

\* two's-complement wrap of a mathematical integer into the signed offset type
I64Half == Pow2(IntBits - 1)
I64Span == Pow2(IntBits)
WrapI64(x) == ((x + I64Half) % I64Span) - I64Half
MinI64 == 0 - I64Half
MaxI64 == I64Half - 1

\* ------------------------------------------------------------------------
\* Byte-string helpers
\* ------------------------------------------------------------------------
Slice(s, a, b) == SubSeq(s, a + 1, b)

\* sum of the bytes in [a,b), each as an unsigned value

\* (the bag that maps each index holding a non-zero byte to that byte has the
\* sum of those bytes as its cardinality; zero bytes add nothing)
SumBytes(s, a, b) ==
    Only({BagCardinality([i \in {j \in (a + 1)..b : t[j] > 0} |-> t[i]]) : t \in {s}})

\* fn truncate: the prefix before the first NUL, or the whole slice
FirstNul(s) ==
    CHOOSE i \in 1..Len(s) : s[i] = 0 /\ \A j \in 1..(i - 1) : s[j] # 0
truncate(slice) ==
    Only({IF \E i \in 1..Len(s) : s[i] = 0
          THEN SubSeq(s, 1, FirstNul(s) - 1)
          ELSE s : s \in {slice}})

\* a continuation byte 10xxxxxx
IsCont(b) == b >= 128 /\ b <= 191

\* the byte of s at index i (1-based), 256 past the end
ByteAt(s, i) == IF i >= 1 /\ i <= Len(s) THEN s[i] ELSE 256

\* the number of bytes of the well-formed UTF-8 sequence that starts at
\* index i of s, 0 if none does: no overlong form, no surrogate, nothing
\* above U+10FFFF
Utf8Width(s, i) ==
    LET b0 == ByteAt(s, i)
        b1 == ByteAt(s, i + 1)
        b2 == ByteAt(s, i + 2)
        b3 == ByteAt(s, i + 3)
    IN  IF b0 < 128 THEN 1
        ELSE IF b0 >= 194 /\ b0 <= 223
             THEN (IF IsCont(b1) THEN 2 ELSE 0)
        ELSE IF b0 >= 224 /\ b0 <= 239
             THEN (IF /\ IsCont(b1) /\ IsCont(b2)
                      /\ (b0 = 224 => b1 >= 160)
                      /\ (b0 = 237 => b1 <= 159)
                   THEN 3 ELSE 0)
        ELSE IF b0 >= 240 /\ b0 <= 244
             THEN (IF /\ IsCont(b1) /\ IsCont(b2) /\ IsCont(b3)
                      /\ (b0 = 240 => b1 >= 144)
                      /\ (b0 = 244 => b1 <= 143)
                   THEN 4 ELSE 0)
        ELSE 0

\* the code point of the sequence of w bytes that starts at index i of s
CodePoint(s, i, w) ==
    CASE w = 1 -> s[i]
      [] w = 2 -> (s[i] - 192) * 64 + (s[i + 1] - 128)
      [] w = 3 -> (s[i] - 224) * 4096 + (s[i + 1] - 128) * 64 + (s[i + 2] - 128)
      [] w = 4 -> (s[i] - 240) * 262144 + (s[i + 1] - 128) * 4096
                    + (s[i + 2] - 128) * 64 + (s[i + 3] - 128)
      [] OTHER -> 0 - 1

\* str::from_utf8 returns Some: s is a run of well-formed sequences from
\* index i on
RECURSIVE Utf8From(_, _)
Utf8From(s, i) ==
    IF i > Len(s) THEN TRUE
    ELSE Only({w > 0 /\ Utf8From(s, i + w) : w \in {Utf8Width(s, i)}})

IsUtf8(s) == Utf8From(s, 1)

\* char::is_whitespace on a code point: the Unicode property White_Space
IsWhitespace(c) ==
    \/ c >= 9 /\ c <= 13
    \/ c \in {32, 133, 160, 5760, 8232, 8233, 8239, 8287, 12288}
    \/ c >= 8192 /\ c <= 8202

\* the first character of s is whitespace
LeadsWhite(s) ==
    Len(s) > 0 /\ \E w \in {Utf8Width(s, 1)} : w > 0 /\ IsWhitespace(CodePoint(s, 1, w))

\* the index at which the last character of a non-empty string starts
LastStart(s) ==
    IF \E i \in 1..Len(s) : ~IsCont(s[i])
    THEN CHOOSE i \in 1..Len(s) : ~IsCont(s[i]) /\ \A j \in (i + 1)..Len(s) : IsCont(s[j])
    ELSE 1

\* the last character of s is whitespace
EndsWhite(s) ==
    Len(s) > 0 /\
    \E i \in {LastStart(s)} : \E w \in {Utf8Width(s, i)} :
        w > 0 /\ i + w - 1 = Len(s) /\ IsWhitespace(CodePoint(s, i, w))

\* str::trim_left and str::trim_right: strip whitespace characters
RECURSIVE trim_left(_)
trim_left(s) == IF LeadsWhite(s) THEN trim_left(SubSeq(s, Utf8Width(s, 1) + 1, Len(s))) ELSE s

RECURSIVE trim_right(_)
trim_right(s) == IF EndsWhite(s) THEN trim_right(SubSeq(s, 1, LastStart(s) - 1)) ELSE s

\* str::trim: strip whitespace characters at both ends
trim(s) == trim_right(trim_left(s))

IsOctDigit(b) == b >= 48 /\ b <= 55

\* the value of the first n digits of s
RECURSIVE OctValue(_, _)
OctValue(s, n) == IF n = 0 THEN 0 ELSE OctValue(s, n - 1) * 8 + (s[n] - 48)

\* num::from_str_radix(s, 8) for an unsigned type: an optional leading "+",
\* then one or more octal digits; None on anything else (the empty string,
\* a lone "+", a "-", any other character).  The fields are at most 12
\* characters, so the value is below 2^36 and never overflows the source's
\* 64-bit types.  (The model's integers end at 2^31 - 1: a field that stands
\* for more is outside what the model evaluates, and no input holds one.)
from_str_radix8(s) ==
    Only({IF Len(t) > 0 /\ \A i \in 1..Len(t) : IsOctDigit(t[i])
          THEN [some |-> TRUE, val |-> OctValue(t, Len(t))]
          ELSE [some |-> FALSE, val |-> 0]
          : t \in {IF Len(s) > 0 /\ s[1] = 43 THEN Tail(s) ELSE s}})

\* ------------------------------------------------------------------------
\* struct Header: the fixed layout a 512-byte chunk is transmuted into
\* ------------------------------------------------------------------------
HeaderName(hd) == Slice(hd, 0, NameEnd)
HeaderSize(hd) == Slice(hd, SizeStart, SizeEnd)
HeaderCksum(hd) == Slice(hd, CksumStart, CksumEnd)

\* File::filename_bytes
filename_bytes(f) == truncate(HeaderName(f.header))

\* File::calc_size: no trim, so the field must be digits up to the first NUL
calc_size(hd) ==
    Only({IF ~IsUtf8(t) THEN [ok |-> FALSE, val |-> 0]
          ELSE Only({[ok |-> n.some, val |-> n.val] : n \in {from_str_radix8(t)}})
          : t \in {truncate(HeaderSize(hd))}})

\* File::cksum: truncate at NUL, trim, parse octal
\* File::cksum without the trim
cksumNoTrim(hd) ==
    Only({IF ~IsUtf8(t) THEN [ok |-> FALSE, val |-> 0]
          ELSE Only({[ok |-> n.some, val |-> n.val] : n \in {from_str_radix8(t)}})
          : t \in {truncate(HeaderCksum(hd))}})

cksum(hd) ==
    Only({IF ~IsUtf8(t) THEN [ok |-> FALSE, val |-> 0]
          ELSE Only({[ok |-> n.some, val |-> n.val] : n \in {from_str_radix8(trim(t))}})
          : t \in {truncate(HeaderCksum(hd))}})

\* a sum over the chunk as it is stored, checksum field included
ChunkSumStored(chunk) == SumBytes(chunk, 0, BlockSize)

\* the sum Files::next computes over the chunk
ChunkSum(chunk) ==
    SumBytes(chunk, 0, CksumStart) + SumBytes(chunk, CksumEnd, BlockSize)
        + CksumPlaceholder

\* chunk.iter().any(|i| *i != 0)
AnyNonZero(chunk) == \E c \in {chunk} : \E i \in 1..Len(c) : c[i] # 0

\* a rounding that takes the iterator back to the header it just read
RoundUpBack(size) == 0 - BlockSize

\* a rounding down to whole blocks
RoundUpDown(size) == (size \div BlockSize) * BlockSize

\* a rounding that forgets the padding
RoundUpNoPad(size) == size

\* (size + 511) & !(512 - 1)
RoundUp(size) == ((size + (BlockSize - 1)) \div BlockSize) * BlockSize

\* ------------------------------------------------------------------------
\* Input archives.  An archive is described by its segments and built into
\* the byte string the source holds; the description is the ground truth
\* the iterator's results are compared with.
\* ------------------------------------------------------------------------
Zeros(n) == [i \in 1..n |-> 0]
Fill(n, b) == [i \in 1..n |-> b]
PadTo(s, n) == s \o Zeros(n - Len(s))
\* length of a data region once zero-padded to whole blocks
PaddedLen(n) == n + ((512 - (n % 512)) % 512)

RECURSIVE OctDigits(_, _)
OctDigits(n, w) == IF w = 0 THEN <<>> ELSE OctDigits(n \div 8, w - 1) \o <<48 + (n % 8)>>

\* size field as tar writers emit it: 11 octal digits and a NUL
SizeFieldNul(n) == OctDigits(n, 11) \o <<0>>
\* older writers: octal digits terminated by a space
SizeFieldSpace(n) == OctDigits(n, 11) \o <<32>>
\* checksum field as tar writers emit it: 6 octal digits, NUL, space
CksumField(n) == OctDigits(n, 6) \o <<0, 32>>

\* a header block with the given name, size field and checksum field
RawHeader(name, sizeField, ckField) ==
    PadTo(name, 100)                          \* name
      \o <<48, 48, 48, 48, 54, 52, 52, 0>>    \* mode  "0000644"
      \o <<48, 48, 48, 48, 48, 48, 48, 0>>    \* owner
      \o <<48, 48, 48, 48, 48, 48, 48, 0>>    \* group
      \o sizeField                            \* size
      \o OctDigits(0, 11) \o <<0>>            \* mtime
      \o ckField                              \* cksum
      \o <<48>>                               \* link
      \o Zeros(100)                           \* linkname
      \o Zeros(255)                           \* _rest

\* the header with the checksum a tar writer stores for it
GoodHeader(name, sizeField) ==
    Only({RawHeader(name, sizeField, CksumField(sum)) :
            sum \in {SumBytes(RawHeader(name, sizeField, Fill(8, 32)), 0, 512)}})

\* header with byte k (0-based) of the block replaced by v
Poke(h, k, v) == [h EXCEPT ![k + 1] = v]

\* segments
\*   entry: a header block followed by `present` bytes of its padded data
ZeroSeg == [kind |-> "zero", bytes |-> Zeros(BlockSize),
            good |-> FALSE, name |-> <<>>, size |-> 0]
EntrySeg(name, data) ==
    [kind |-> "entry",
     bytes |-> GoodHeader(name, SizeFieldNul(Len(data))) \o PadTo(data, PaddedLen(Len(data))),
     good |-> TRUE, name |-> name, size |-> Len(data)]
\* the same entry with byte k of its header replaced
PokedSeg(name, data, k, v) ==
    [EntrySeg(name, data) EXCEPT !.bytes = Poke(@, k, v), !.good = FALSE]
\* the same entry with its size field replaced (checksum recomputed)
SizedSeg(name, data, sizeField) ==
    [EntrySeg(name, data) EXCEPT
        !.bytes = GoodHeader(name, sizeField) \o PadTo(data, PaddedLen(Len(data))),
        !.good = FALSE]
\* the sum a tar writer computes for the header
HeaderSum(name, sizeField) == SumBytes(RawHeader(name, sizeField, Fill(8, 32)), 0, 512)
\* the sum written with a leading "+"
CksumFieldPlus(n) == <<43>> \o OctDigits(n, 6) \o <<0>>
\* the sum written between U+00A0 (no-break space) and U+0085 (next line)
CksumFieldWide(n) == <<194, 160>> \o OctDigits(n, 4) \o <<194, 133>>
\* an entry whose size and checksum fields are written as given; both stand
\* for the numbers a tar writer stores, in a form the reader's number parser
\* takes
LenientSeg(name, data, sizeField, ckField) ==
    [kind |-> "entry",
     bytes |-> RawHeader(name, sizeField, ckField) \o PadTo(data, PaddedLen(Len(data))),
     good |-> TRUE, name |-> name, size |-> Len(data)]
\* size field with a leading "+"
SizeFieldPlus(n) == <<43>> \o OctDigits(n, 10) \o <<0>>
\* the same entry cut off after n bytes of its data region
CutSeg(name, data, n) ==
    [EntrySeg(name, data) EXCEPT !.bytes = SubSeq(@, 1, BlockSize + n), !.good = FALSE]
\* n bytes that are not a whole block
PartSeg(n) == [kind |-> "part", bytes |-> Fill(n, 7),
               good |-> FALSE, name |-> <<>>, size |-> 0]

RECURSIVE Build(_)
Build(segs) == IF Len(segs) = 0 THEN <<>> ELSE Head(segs).bytes \o Build(Tail(segs))

\* absolute offset of the i-th segment
RECURSIVE SegOffset(_, _)
SegOffset(segs, i) == IF i <= 1 THEN 0 ELSE SegOffset(segs, i - 1) + Len(segs[i - 1].bytes)

\* well-formed: entries whose header fields stand for the header's sum and
\* the length of the data, then exactly two all-zero blocks
WellFormed(segs) ==
    /\ Len(segs) >= 2
    /\ \A i \in 1..Len(segs) :
          IF i <= Len(segs) - 2 THEN segs[i].good ELSE segs[i].kind = "zero"

NameA == <<97>>
NameB == <<98>>
NameC == <<99>>
NameZ == <<122>>
DataA == <<97, 10, 97>>
DataB == <<>>
DataC == Fill(513, 99)
DataZ == Zeros(1024)
NameD == <<100>>
DataD == <<100>>
SegA == EntrySeg(NameA, DataA)
SegB == EntrySeg(NameB, DataB)
SegC == EntrySeg(NameC, DataC)
SegZ == EntrySeg(NameZ, DataZ)
SegD == EntrySeg(NameD, DataD)

Layouts ==
    << <<ZeroSeg, ZeroSeg>>,
       <<SegA, ZeroSeg, ZeroSeg>>,
       <<SegA, SegB, ZeroSeg, ZeroSeg>>,
       <<SegB, SegA, ZeroSeg, ZeroSeg>>,
       <<SegC, SegA, ZeroSeg, ZeroSeg>>,
       <<SegZ, SegA, ZeroSeg, ZeroSeg>>,
       <<ZeroSeg, SegA, ZeroSeg, ZeroSeg>>,
       <<SegA, ZeroSeg, SegB, ZeroSeg, ZeroSeg>>,
       <<SegA, ZeroSeg, ZeroSeg, SegB>>,
       <<SegA, ZeroSeg>>,
       <<SegA>>,
       <<SegA, PartSeg(10)>>,
       <<CutSeg(NameA, DataA, 2)>>,
       <<SizedSeg(NameA, DataA, SizeFieldSpace(3)), ZeroSeg, ZeroSeg>>,
       <<SizedSeg(NameA, DataA, <<122, 122>> \o Zeros(10)), ZeroSeg, ZeroSeg>>,
       <<SizedSeg(NameA, DataA, Zeros(12)), ZeroSeg, ZeroSeg>>,
       <<SegA, SegD, ZeroSeg, ZeroSeg>>,
       <<PokedSeg(NameA, DataA, 0, 98), ZeroSeg, ZeroSeg>>,
       <<PokedSeg(NameA, DataA, CksumStart, 56), ZeroSeg, ZeroSeg>>,
       <<LenientSeg(NameA, DataA, SizeFieldPlus(3),
                    CksumField(HeaderSum(NameA, SizeFieldPlus(3)))), ZeroSeg, ZeroSeg>>,
       <<LenientSeg(NameA, DataA, SizeFieldNul(3),
                    CksumFieldPlus(HeaderSum(NameA, SizeFieldNul(3)))), ZeroSeg, ZeroSeg>>,
       <<LenientSeg(NameA, DataA, SizeFieldNul(3),
                    CksumFieldWide(HeaderSum(NameA, SizeFieldNul(3)))), ZeroSeg, ZeroSeg>>
    >>

\* the archive of layout l, with one byte of the header of segment pk.seg
\* altered unless pk is NoPoke
NoPoke == [seg |-> 0, at |-> 0, to |-> 0]
\* the bytes of each layout
Contents == [l \in 1..Len(Layouts) |-> Build(Layouts[l])]
Source(l, pk) ==
    IF pk.seg = 0 THEN Contents[l]
    ELSE Poke(Contents[l], SegOffset(Layouts[l], pk.seg) + pk.at, pk.to)

\* ------------------------------------------------------------------------
\* State
\* ------------------------------------------------------------------------
VARIABLES
    obj,        \* Archive.obj: the underlying source, [pos]: where it stands.
                \* No call writes to it: its bytes are those of the archive
                \* named by layout and poke throughout
    pos,        \* Archive.pos: the offset the archive believes the source is at
    live,       \* the caller holds a Files iterator
    done,       \* Files.done
    offset,     \* Files.offset
    files,      \* the File views the caller keeps: [header, tar_offset, pos, size]
    layout,     \* index into Layouts of the archive the source holds
    poke,       \* the byte of that archive that was altered, if any
    results,    \* what each Files::next call of the current iterator returned
    last,       \* the latest call and what it returned
    runs,       \* per view: bytes delivered since it was last rewound to 0
    budget,     \* what the exploration may still spend (see MaxOps)
    reliable    \* the source never fails a call nor returns short (as the
                \* in-memory reader of the tests)

vars == <<obj, pos, live, done, offset, files, layout, poke, results, last,
          runs, budget, reliable>>

\* the bytes the source holds
Data == Source(layout, poke)
\* the archive handle the calls work on: the source with its bytes and
\* position, and Archive.pos
Handle == [obj |-> [data |-> Data, pos |-> obj.pos], pos |-> pos]

\* error values
EndOfFile == "EndOfFile"                 \* io::standard_error(io::EndOfFile)
OtherIoError == "OtherIoError"           \* io::standard_error(io::OtherIoError)
BadArchive == "invalid tar archive"      \* bad_archive()
SourceFailure == "SourceFailure"         \* an error of the underlying source

\* ------------------------------------------------------------------------
\* The underlying source R: Reader + Seek, an in-memory reader as in the
\* tests, which may also fail a call or return fewer bytes than it could.
\* A failing call leaves the source's position unchanged.
\* ------------------------------------------------------------------------
\* R::seek(pos, SeekSet)
SrcSeek(o, p, fail) ==
    IF fail THEN [ok |-> FALSE, err |-> SourceFailure, obj |-> o]
    ELSE [ok |-> TRUE, err |-> "", obj |-> [o EXCEPT !.pos = p]]

\* R::read(buf) with buf.len() = len; mode is "full", "short" or "err"
SrcRead(o, len, mode) ==
    IF mode = "err"
    THEN [ok |-> FALSE, err |-> SourceFailure, n |-> 0, bytes |-> <<>>, obj |-> o, hit |-> TRUE]
    ELSE IF o.pos >= Len(o.data)
    THEN [ok |-> FALSE, err |-> EndOfFile, n |-> 0, bytes |-> <<>>, obj |-> o, hit |-> FALSE]
    ELSE LET avail == Min(len, Len(o.data) - o.pos)
             n == IF mode = "short" THEN avail \div 2 ELSE avail
         IN  [ok |-> TRUE, err |-> "", n |-> n,
              bytes |-> Slice(o.data, o.pos, o.pos + n),
              obj |-> [o EXCEPT !.pos = o.pos + n],
              hit |-> n < avail]

\* ------------------------------------------------------------------------
\* Archive: a is the handle's state [obj, pos]
\* ------------------------------------------------------------------------
\* Archive::seek that records the offset before the source has moved
ArchiveSeekEarlySet(a, p, fail) ==
    IF a.pos = p THEN [ok |-> TRUE, err |-> "", a |-> a, hit |-> FALSE]
    ELSE LET r == SrcSeek(a.obj, p, fail) IN
         IF ~r.ok THEN [ok |-> FALSE, err |-> r.err, a |-> [a EXCEPT !.pos = p],
                        hit |-> TRUE]
         ELSE [ok |-> TRUE, err |-> "", a |-> [obj |-> r.obj, pos |-> p], hit |-> FALSE]

\* Archive::seek that records the offset but never moves the source
ArchiveSeekElide(a, p, fail) ==
    [ok |-> TRUE, err |-> "", a |-> [a EXCEPT !.pos = p], hit |-> FALSE]

\* Archive::seek
ArchiveSeek(a, p, fail) ==
    IF a.pos = p THEN [ok |-> TRUE, err |-> "", a |-> a, hit |-> FALSE]
    ELSE LET r == SrcSeek(a.obj, p, fail) IN
         IF ~r.ok THEN [ok |-> FALSE, err |-> r.err, a |-> a, hit |-> TRUE]
         ELSE [ok |-> TRUE, err |-> "", a |-> [obj |-> r.obj, pos |-> p], hit |-> FALSE]

\* a read that does not add the bytes read to the tracked offset
ArchiveReadNoAdvance(a, len, mode) ==
    LET r == SrcRead(a.obj, len, mode) IN
    IF ~r.ok
    THEN [ok |-> FALSE, err |-> r.err, n |-> 0, bytes |-> <<>>, a |-> a, hit |-> r.hit]
    ELSE [ok |-> TRUE, err |-> "", n |-> r.n, bytes |-> r.bytes,
          a |-> [obj |-> r.obj, pos |-> a.pos], hit |-> r.hit]

\* Reader for &Archive: read
ArchiveRead(a, len, mode) ==
    LET r == SrcRead(a.obj, len, mode) IN
    IF ~r.ok
    THEN [ok |-> FALSE, err |-> r.err, n |-> 0, bytes |-> <<>>, a |-> a, hit |-> r.hit]
    ELSE [ok |-> TRUE, err |-> "", n |-> r.n, bytes |-> r.bytes,
          a |-> [obj |-> r.obj, pos |-> a.pos + r.n], hit |-> r.hit]

\* what the source does during one call: fail the seek, or fail / shorten
\* the at-th read of the call
NoFault == [seek |-> FALSE, rd |-> "full", at |-> 0]
FaultChoices ==
    {NoFault, [seek |-> TRUE, rd |-> "full", at |-> 0]}
      \cup [seek : {FALSE}, rd : {"err", "short"}, at : {1, 2}]
\* the choices for a call that issues up to k reads
Faults(k) ==
    IF reliable \/ budget = 0 THEN {NoFault} ELSE {c \in FaultChoices : c.at <= k}
ReadMode(flt, k) == IF flt.at = k THEN flt.rd ELSE "full"
\* the choices for a single read of the source
ReadModes == IF reliable \/ budget = 0 THEN {"full"} ELSE {"full", "err", "short"}

\* ------------------------------------------------------------------------
\* Files::next
\* ------------------------------------------------------------------------
NoFile == [header |-> <<>>, tar_offset |-> 0, pos |-> 0, size |-> 0]

\* an error exit that forgets to set done
FailedNotDone(err, a, off, cnt, hit) ==
    [ret |-> "Err", err |-> err, a |-> a, done |-> FALSE, offset |-> off,
     file |-> NoFile, cnt |-> cnt, hit |-> hit]

\* the error exits of next: the try! and bail! macros both set done
Failed(err, a, off, cnt, hit) ==
    [ret |-> "Err", err |-> err, a |-> a, done |-> TRUE, offset |-> off,
     file |-> NoFile, cnt |-> cnt, hit |-> hit]

\* an end test that waits for a third all-zero block
EndReachedLate(cnt) == cnt > 2

\* if cnt > 1: the second all-zero block in a row ends the archive
EndReached(cnt) == cnt > 1

\* the end-of-archive exit
Ended(a, off, cnt, hit) ==
    [ret |-> "None", err |-> "", a |-> a, done |-> TRUE, offset |-> off,
     file |-> NoFile, cnt |-> cnt, hit |-> hit]

\* the part of next after the loop: chunk is a block with a non-zero byte,
\* off is self.offset after the block was counted
ParseHeader(chunk, a, off, cnt, hit) ==
    Only({IF ~ck.ok THEN Failed(BadArchive, a, off, cnt, hit)
          ELSE IF ChunkSum(chunk) # ck.val THEN Failed(BadArchive, a, off, cnt, hit)
          ELSE IF ~sz.ok THEN Failed(BadArchive, a, off, cnt, hit)
          ELSE [ret |-> "Ok", err |-> "", a |-> a, done |-> FALSE,
                offset |-> off + RoundUp(sz.val),
                file |-> [header |-> chunk, tar_offset |-> off, pos |-> 0,
                          size |-> sz.val],
                cnt |-> cnt, hit |-> hit]
          : ck \in {cksum(chunk)}, sz \in {calc_size(chunk)}})

\* the loop of next; k numbers the block reads of this call, r is what the
\* read of one block returned
RECURSIVE ScanLoop(_, _, _, _, _, _)
\* a loop body that takes a block of fewer than 512 bytes for the end
ScanStepShortEnds(r, off, cnt, k, flt, hit) ==
    IF ~r.ok THEN Failed(r.err, r.a, off, cnt, hit \/ r.hit)
    ELSE IF r.n # BlockSize THEN Ended(r.a, off, cnt, hit \/ r.hit)
    ELSE IF AnyNonZero(r.bytes)
         THEN ParseHeader(r.bytes, r.a, off + BlockSize, cnt, hit \/ r.hit)
    ELSE IF EndReached(cnt + 1) THEN Ended(r.a, off + BlockSize, cnt + 1, hit \/ r.hit)
    ELSE ScanLoop(r.a, off + BlockSize, cnt + 1, k + 1, flt, hit \/ r.hit)

ScanStep(r, off, cnt, k, flt, hit) ==
    IF ~r.ok THEN Failed(r.err, r.a, off, cnt, hit \/ r.hit)
    ELSE IF r.n # BlockSize THEN Failed(BadArchive, r.a, off, cnt, hit \/ r.hit)
    ELSE IF AnyNonZero(r.bytes)
         THEN ParseHeader(r.bytes, r.a, off + BlockSize, cnt, hit \/ r.hit)
    ELSE IF EndReached(cnt + 1) THEN Ended(r.a, off + BlockSize, cnt + 1, hit \/ r.hit)
    ELSE ScanLoop(r.a, off + BlockSize, cnt + 1, k + 1, flt, hit \/ r.hit)

ScanLoop(a, off, cnt, k, flt, hit) ==
    Only({ScanStep(r, off, cnt, k, flt, hit) :
            r \in {ArchiveRead(a, BlockSize, ReadMode(flt, k))}})

\* Files::next on an iterator with the given done flag and offset
FilesNext(a, dn, off, flt) ==
    IF dn THEN [ret |-> "None", err |-> "", a |-> a, done |-> TRUE, offset |-> off,
                file |-> NoFile, cnt |-> 0, hit |-> FALSE]
    ELSE LET s == ArchiveSeek(a, off, flt.seek) IN
         IF ~s.ok THEN Failed(s.err, s.a, off, 0, s.hit)
         ELSE ScanLoop(s.a, off, 0, 1, flt, s.hit)

\* ------------------------------------------------------------------------
\* File::read and File::seek
\* ------------------------------------------------------------------------
\* the absolute offset File::read positions the archive at
\* the seek target without the view's position
ReadTargetStart(f) == f.tar_offset

ReadTarget(f) == f.tar_offset + f.pos

\* the amount without the clamp to what is left of the entry
ReadAmountLen(f, len) == len

\* cmp::min((self.size - self.pos) as uint, into.len())
ReadAmount(f, len) == Min(f.size - f.pos, len)

\* File::read without the test for the end of the entry
FileReadNoEnd(a, f, len, flt) ==
    LET s == ArchiveSeek(a, ReadTarget(f), flt.seek) IN
    IF ~s.ok
    THEN [ok |-> FALSE, err |-> s.err, n |-> 0, bytes |-> <<>>, a |-> s.a,
          f |-> f, req |-> <<>>, hit |-> s.hit]
    ELSE LET amt == ReadAmount(f, len)
             r == ArchiveRead(s.a, amt, ReadMode(flt, 1))
         IN  IF ~r.ok
             THEN [ok |-> FALSE, err |-> r.err, n |-> 0, bytes |-> <<>>,
                   a |-> r.a, f |-> f, req |-> <<s.a.obj.pos, amt>>,
                   hit |-> r.hit]
             ELSE [ok |-> TRUE, err |-> "", n |-> r.n, bytes |-> r.bytes,
                   a |-> r.a, f |-> [f EXCEPT !.pos = f.pos + r.n],
                   req |-> <<s.a.obj.pos, amt>>, hit |-> r.hit]

\* File::read with into.len() = len.  req is the read issued to the source:
\* the source position it was issued at and the number of bytes asked for.
FileRead(a, f, len, flt) ==
    IF f.size = f.pos
    THEN [ok |-> FALSE, err |-> EndOfFile, n |-> 0, bytes |-> <<>>, a |-> a,
          f |-> f, req |-> <<>>, hit |-> FALSE]
    ELSE LET s == ArchiveSeek(a, ReadTarget(f), flt.seek) IN
         IF ~s.ok
         THEN [ok |-> FALSE, err |-> s.err, n |-> 0, bytes |-> <<>>, a |-> s.a,
               f |-> f, req |-> <<>>, hit |-> s.hit]
         ELSE LET amt == ReadAmount(f, len)
                  r == ArchiveRead(s.a, amt, ReadMode(flt, 1))
              IN  IF ~r.ok
                  THEN [ok |-> FALSE, err |-> r.err, n |-> 0, bytes |-> <<>>,
                        a |-> r.a, f |-> f, req |-> <<s.a.obj.pos, amt>>,
                        hit |-> r.hit]
                  ELSE [ok |-> TRUE, err |-> "", n |-> r.n, bytes |-> r.bytes,
                        a |-> r.a, f |-> [f EXCEPT !.pos = f.pos + r.n],
                        req |-> <<s.a.obj.pos, amt>>, hit |-> r.hit]

Styles == {"SeekSet", "SeekCur", "SeekEnd"}

\* the candidate with every style taken as SeekSet
SeekCandidateSet(f, p, style) == p

\* the match on style, in the signed offset type
SeekCandidate(f, p, style) ==
    CASE style = "SeekSet" -> p
      [] style = "SeekCur" -> WrapI64(f.pos + p)
      [] style = "SeekEnd" -> WrapI64(f.size + p)

\* File::seek without the check against size
FileSeekNoUpper(f, p, style) ==
    LET next == SeekCandidate(f, p, style) IN
    IF next < 0 THEN [ok |-> FALSE, err |-> OtherIoError, f |-> f]
    ELSE [ok |-> TRUE, err |-> "", f |-> [f EXCEPT !.pos = next]]

\* File::seek
FileSeek(f, p, style) ==
    LET next == SeekCandidate(f, p, style) IN
    IF next < 0 THEN [ok |-> FALSE, err |-> OtherIoError, f |-> f]
    ELSE IF next > f.size THEN [ok |-> FALSE, err |-> OtherIoError, f |-> f]
    ELSE [ok |-> TRUE, err |-> "", f |-> [f EXCEPT !.pos = next]]

\* ------------------------------------------------------------------------
\* Inputs of the calls
\* ------------------------------------------------------------------------
\* buffer lengths passed to File::read and to the archive's read
BufLens == {0, 2, 600}
\* offsets passed to File::seek
SeekOffs == {MinI64, -1, 0, 1, MaxI64}

NoCall == [op |-> "new", view |-> 0, ret |-> "", err |-> "", n |-> 0,
           data |-> <<>>, req |-> <<>>]

NewRun == [from0 |-> TRUE, bytes |-> <<>>, passes |-> <<>>]

\* the first and the latest completed pass
AddPass(passes, bytes) ==
    IF Len(passes) < 2 THEN Append(passes, bytes) ELSE <<passes[1], bytes>>

\* a pass over a view starts at position 0 and ends when read reports EndOfFile
RunAfterRead(run, r) ==
    IF r.ok THEN (IF run.from0 THEN [run EXCEPT !.bytes = @ \o r.bytes] ELSE run)
    ELSE IF r.err = EndOfFile /\ run.from0
         THEN [from0 |-> FALSE, bytes |-> run.bytes,
               passes |-> AddPass(run.passes, run.bytes)]
         ELSE run

RunAfterSeek(run, r) ==
    IF r.ok THEN [run EXCEPT !.from0 = (r.f.pos = 0), !.bytes = <<>>] ELSE run

\* a chosen fault counts only if the call reached the point where it strikes
FaultAllowed(flt, hit) == flt # NoFault => hit

\* ------------------------------------------------------------------------
\* Init: Archive::new over a source holding one of the archives
\* ------------------------------------------------------------------------
Fresh ==
    /\ obj = [pos |-> 0]
    /\ pos = 0
    /\ live = FALSE
    /\ done = FALSE
    /\ offset = 0
    /\ files = <<>>
    /\ results = <<>>
    /\ last = NoCall
    /\ runs = <<>>

Init ==
    /\ layout \in 1..Len(Layouts)
    /\ poke = NoPoke
    /\ Fresh
    /\ budget = MaxOps
    /\ reliable = FALSE

\* what a call costs: base for the call itself, one more if the source misbehaved
Cost(base, hit) == base + (IF hit THEN 1 ELSE 0)

\* Archive::files: seek to 0, then a fresh iterator replaces the caller's
FilesCall(fail) ==
    /\ \E s \in {ArchiveSeek(Handle, 0, fail)} :
       /\ fail => s.hit
       /\ Cost(IF live THEN 1 ELSE 0, s.hit) <= budget
       /\ budget' = budget - Cost(IF live THEN 1 ELSE 0, s.hit)
       /\ obj' = [pos |-> s.a.obj.pos]
       /\ pos' = s.a.pos
       /\ IF s.ok
          THEN live' = TRUE /\ done' = FALSE /\ offset' = 0 /\ results' = <<>>
          ELSE UNCHANGED <<live, done, offset, results>>
       /\ last' = [NoCall EXCEPT !.op = "files",
                     !.ret = IF s.ok THEN "Ok" ELSE "Err", !.err = s.err]
    /\ UNCHANGED <<files, layout, poke, runs, reliable>>

\* Files::next; the caller keeps the yielded view while it holds fewer than
\* MaxViews
NextCall(flt) ==
    /\ live
    /\ Len(results) < MaxNext
    /\ \E r \in {FilesNext(Handle, done, offset, flt)} :
       /\ FaultAllowed(flt, r.hit)
       /\ budget' = budget - Cost(0, r.hit)
       /\ obj' = [pos |-> r.a.obj.pos]
       /\ pos' = r.a.pos
       /\ done' = r.done
       /\ offset' = r.offset
       /\ results' = Append(results,
              [ret |-> r.ret, err |-> r.err, cnt |-> r.cnt, hit |-> r.hit,
               fault |-> IF ~r.hit THEN "none"
                         ELSE IF flt.seek THEN "seek" ELSE flt.rd,
               name |-> IF r.ret = "Ok" THEN filename_bytes(r.file) ELSE <<>>,
               size |-> r.file.size, tar_offset |-> r.file.tar_offset])
       /\ \E keep \in {r.ret = "Ok" /\ Len(files) < MaxViews} :
            /\ files' = IF keep THEN Append(files, r.file) ELSE files
            /\ runs' = IF keep THEN Append(runs, NewRun) ELSE runs
            /\ last' = [NoCall EXCEPT !.op = "next", !.ret = r.ret, !.err = r.err,
                          !.view = IF keep THEN Len(files) + 1 ELSE 0]
    /\ UNCHANGED <<live, layout, poke, reliable>>

\* Reader for &Archive: read, called by the holder of the archive with a
\* buffer of len bytes; mode is what the source does with the read
ArchiveReadCall(len, mode) ==
    /\ \E r \in {ArchiveRead(Handle, len, mode)} :
       /\ mode # "full" => r.hit
       /\ Cost(1, r.hit) <= budget
       /\ budget' = budget - Cost(1, r.hit)
       /\ obj' = [pos |-> r.a.obj.pos]
       /\ pos' = r.a.pos
       /\ last' = [NoCall EXCEPT !.op = "aread",
                     !.ret = IF r.ok THEN "Ok" ELSE "Err", !.err = r.err,
                     !.n = r.n, !.data = r.bytes, !.req = <<obj.pos, len>>]
    /\ UNCHANGED <<live, done, offset, files, layout, poke, results, runs, reliable>>

\* File::read on view v with a buffer of len bytes
ReadCall(v, len, flt) ==
    /\ v \in 1..Len(files)
    /\ \E r \in {FileRead(Handle, files[v], len, flt)} :
       /\ FaultAllowed(flt, r.hit)
       /\ Cost(1, r.hit) <= budget
       /\ budget' = budget - Cost(1, r.hit)
       /\ obj' = [pos |-> r.a.obj.pos]
       /\ pos' = r.a.pos
       /\ files' = [files EXCEPT ![v] = r.f]
       /\ runs' = [runs EXCEPT ![v] = RunAfterRead(@, r)]
       /\ last' = [NoCall EXCEPT !.op = "read", !.view = v,
                     !.ret = IF r.ok THEN "Ok" ELSE "Err", !.err = r.err,
                     !.n = r.n, !.data = r.bytes, !.req = r.req]
    /\ UNCHANGED <<live, done, offset, layout, poke, results, reliable>>

\* File::seek that also repositions the archive at once
SeekCallEager(v, p, style) ==
    /\ budget > 0
    /\ v \in 1..Len(files)
    /\ budget' = budget - 1
    /\ \E r \in {FileSeek(files[v], p, style)} :
       /\ last' = [NoCall EXCEPT !.op = "seek", !.view = v,
                     !.ret = IF r.ok THEN "Ok" ELSE "Err", !.err = r.err]
       /\ files' = [files EXCEPT ![v] = r.f]
       /\ runs' = [runs EXCEPT ![v] = RunAfterSeek(@, r)]
       /\ obj' = [obj EXCEPT !.pos = ReadTarget(r.f)]
       /\ pos' = ReadTarget(r.f)
    /\ UNCHANGED <<live, done, offset, layout, poke, results, reliable>>

\* File::seek on view v
SeekCall(v, p, style) ==
    /\ budget > 0
    /\ v \in 1..Len(files)
    /\ budget' = budget - 1
    /\ \E r \in {FileSeek(files[v], p, style)} :
       /\ last' = [NoCall EXCEPT !.op = "seek", !.view = v,
                     !.ret = IF r.ok THEN "Ok" ELSE "Err", !.err = r.err]
       /\ files' = [files EXCEPT ![v] = r.f]
       /\ runs' = [runs EXCEPT ![v] = RunAfterSeek(@, r)]
    /\ UNCHANGED <<obj, pos, live, done, offset, layout, poke, results, reliable>>

\* the seeks a caller makes: any of SeekOffs in any style, but only rewinds
\* when the behaviour follows a reader of a reliable source
AllSeekArgs == SeekOffs \X Styles
\* buffer lengths passed to the archive's own read
ArchiveBufLens == {2}
SeekArgs == IF reliable THEN {<<0, "SeekSet">>} ELSE AllSeekArgs

Next ==
    \/ \E fail \in {f \in BOOLEAN : f => ~reliable} : FilesCall(fail)
    \/ \E flt \in Faults(2) : NextCall(flt)
    \/ \E v \in 1..MaxViews, len \in BufLens, flt \in Faults(1) : ReadCall(v, len, flt)
    \/ \E v \in 1..MaxViews, arg \in SeekArgs : SeekCall(v, arg[1], arg[2])
    \/ \E len \in ArchiveBufLens, mode \in ReadModes : ArchiveReadCall(len, mode)

Spec == Init /\ [][Next]_vars

\* The caller keeps calling next as long as the iterator can be called; the
\* archives are the empty one, two entries, two entries a zero block apart,
\* a source that runs out, one that ends in a partial block and a header
\* whose size does not parse
LiveLayouts == {1, 3, 8, 10, 12, 15}
InitLive ==
    /\ layout \in LiveLayouts
    /\ poke = NoPoke
    /\ Fresh
    /\ budget = MaxOps
    /\ reliable = FALSE

SpecLive == InitLive /\ [][Next]_vars /\ WF_vars(\E flt \in Faults(2) : NextCall(flt))

\* A reliable source, with views followed through more calls
DeepLayouts == {2, 3, 13, 17}
InitDeep ==
    /\ layout \in DeepLayouts
    /\ poke = NoPoke
    /\ Fresh
    /\ budget = MaxDeepOps
    /\ reliable = TRUE

SpecDeep == InitDeep /\ [][Next]_vars

\* A reliable source holding an archive in which one byte of one header (of
\* its checksum field, or its first or last byte) was changed to a different
\* value; layout 15 has a header whose size field does not parse, layout 22
\* one whose checksum field holds two-byte whitespace characters
PokeLayouts == {3, 15, 22}
PokeVals == {0, 9, 32, 43, 48, 49, 55, 56, 133, 255}
PokeAts == {0, BlockSize - 1} \cup CksumStart..(CksumEnd - 1)
InitPoke ==
    /\ layout \in PokeLayouts
    /\ poke \in {pk \in [seg : 1..2, at : PokeAts, to : PokeVals] :
                    /\ Layouts[layout][pk.seg].kind = "entry"
                    /\ Layouts[layout][pk.seg].bytes[pk.at + 1] # pk.to}
    /\ Fresh
    /\ budget = MaxOps
    /\ reliable = TRUE

SpecPoke == InitPoke /\ [][Next]_vars

\* A reliable source that is handed to Archive::new at some block boundary,
\* not necessarily its start: new records 0 whatever the source's position
HandoverLayouts == {3, 17}
StartPositions == {0, BlockSize, 2 * BlockSize}
InitHandover ==
    /\ layout \in HandoverLayouts
    /\ poke = NoPoke
    /\ \E start \in StartPositions : obj = [pos |-> start]
    /\ pos = 0
    /\ live = FALSE
    /\ done = FALSE
    /\ offset = 0
    /\ files = <<>>
    /\ results = <<>>
    /\ last = NoCall
    /\ runs = <<>>
    /\ budget = MaxOps
    /\ reliable = TRUE

SpecHandover == InitHandover /\ [][Next]_vars

TypeOK ==
    /\ pos \in Nat /\ offset \in Nat /\ done \in BOOLEAN /\ live \in BOOLEAN
    /\ Len(files) = Len(runs)

\* ------------------------------------------------------------------------
\* Ground truth of a layout
\* ------------------------------------------------------------------------
Segs == Layouts[layout]
\* number of entries of a well-formed layout
NumEntries == Len(Segs) - 2
\* where the data of the i-th segment starts
DataOffset(i) == SegOffset(Segs, i) + BlockSize

\* no call of next up to the i-th met a misbehaving source
Undisturbed(i) == \A j \in 1..i : ~results[j].hit

\* C1: for a well-formed archive read from a source that does not misbehave,
\* the i-th call of next yields the i-th entry of the archive, with the name
\* and the size of its header and its data at the entry's place in the
\* source; the call after the last entry yields nothing.  So every header
\* is yielded once, in physical order, none twice and none skipped.
C1_InOrder ==
    WellFormed(Segs) =>
        \A i \in 1..Len(results) :
            Undisturbed(i) =>
                IF i <= NumEntries
                THEN /\ results[i].ret = "Ok"
                     /\ results[i].name = Segs[i].name
                     /\ results[i].size = Segs[i].size
                     /\ results[i].tar_offset = DataOffset(i)
                     /\ \A j \in 1..(i - 1) :
                            results[j].tar_offset < results[i].tar_offset
                ELSE results[i].ret = "None"

\* every entry of a well-formed archive of two entries has been yielded and
\* the iterator has ended
C1_Witness ==
    /\ WellFormed(Segs) /\ NumEntries = 2
    /\ Len(results) = 3 /\ Undisturbed(3)
    /\ results[1].ret = "Ok" /\ results[2].ret = "Ok" /\ results[3].ret = "None"
    /\ results[1].size = 513

\* C2: a call of next that read two all-zero blocks returned None and left
\* the iterator done; and for an archive of valid entries followed by two
\* all-zero blocks no call of next returns an error: the calls return Ok
\* once per entry and None from then on.
C2_CleanEnd ==
    /\ \A i \in 1..Len(results) :
          results[i].cnt = 2 => results[i].ret = "None"
    /\ (Len(results) > 0 /\ results[Len(results)].cnt = 2) => done
    /\ WellFormed(Segs) =>
          \A i \in 1..Len(results) :
              Undisturbed(i) =>
                  /\ results[i].ret # "Err"
                  /\ results[i].ret = "Ok" <=> i <= NumEntries

\* the end marker of an archive with an entry has just been read
C2_Witness ==
    /\ WellFormed(Segs) /\ NumEntries >= 1
    /\ Len(results) = NumEntries + 1 /\ Undisturbed(Len(results))
    /\ results[Len(results)].cnt = 2 /\ results[Len(results)].ret = "None"
    /\ done

\* C3: once a call of next has returned an error or None, every later call
\* on that iterator returns None, and the iterator stays done whatever is
\* done with the views.
C3_DoneAbsorbing ==
    /\ \A i \in 1..Len(results) :
          results[i].ret # "Ok" => \A j \in (i + 1)..Len(results) :
                                      results[j].ret = "None"
    /\ (Len(results) > 0 /\ results[Len(results)].ret # "Ok") => done

\* next was called again after it had returned an error, and a view had
\* been read before that call
C3_Witness ==
    /\ Len(results) >= 3
    /\ results[Len(results) - 1].ret = "Err"
    /\ results[Len(results)].ret = "None"
    /\ Len(files) > 0 /\ files[1].pos > 0

\* ------------------------------------------------------------------------
\* An altered checksum byte
\* ------------------------------------------------------------------------
\* the header of the altered segment as the source holds it and as written
PokedAt == SegOffset(Segs, poke.seg)
PokedHeader == Slice(Data, PokedAt, PokedAt + BlockSize)
WrittenHeader == SubSeq(Segs[poke.seg].bytes, 1, BlockSize)
\* the number a checksum field stands for: the field up to its first NUL,
\* without surrounding whitespace, read as octal
FieldValue(h) ==
    LET t == truncate(Slice(h, CksumStart, CksumEnd)) IN
    IF IsUtf8(t) THEN from_str_radix8(trim(t)) ELSE [some |-> FALSE, val |-> 0]
SameValue == FieldValue(PokedHeader) = FieldValue(WrittenHeader)
\* the call of next that scans the altered header has been made
ScannedPoke == poke.seg # 0 /\ Len(results) >= poke.seg
\* and the altered byte is one of the checksum field
CksumPoked == ScannedPoke /\ poke.at \in CksumStart..(CksumEnd - 1)

\* C4 as stated: whenever one byte of a header's checksum field was changed
\* to a different value, the call of next that scans the header returns the
\* malformed-archive error and neither that entry nor a later one is yielded.
C4_AnyChangeRejected ==
    CksumPoked =>
        /\ results[poke.seg].ret = "Err"
        /\ results[poke.seg].err = BadArchive
        /\ \A j \in poke.seg..Len(results) : results[j].ret # "Ok"

\* C4: a change of one byte of a header's checksum field makes the call of
\* next that scans the header return the malformed-archive error, with
\* neither that entry nor a later one yielded, exactly when the changed
\* field no longer stands for the same number (or for no number at all);
\* a change that leaves the number the same is not noticed: the entries
\* of a well-formed archive are yielded as from the unaltered archive.
C4_ValueChangeRejected ==
    CksumPoked =>
        IF SameValue
        THEN \A i \in 1..Len(results) :
                IF ~WellFormed(Segs) THEN TRUE
                ELSE IF i <= NumEntries
                THEN /\ results[i].ret = "Ok"
                     /\ results[i].name = Segs[i].name
                     /\ results[i].size = Segs[i].size
                ELSE results[i].ret = "None"
        ELSE /\ results[poke.seg].ret = "Err"
             /\ results[poke.seg].err = BadArchive
             /\ \A j \in poke.seg..Len(results) : results[j].ret # "Ok"
             /\ \A j \in 1..(poke.seg - 1) : results[j].ret = "Ok"

\* the second header's checksum field stands for another number, the first
\* entry was yielded, the second call failed and the third returned None
C4_Witness ==
    /\ CksumPoked /\ ~SameValue /\ poke.seg = 2
    /\ Len(results) = 3
    /\ results[1].ret = "Ok"
    /\ results[2].ret = "Err" /\ results[2].err = BadArchive
    /\ results[3].ret = "None"

\* ------------------------------------------------------------------------
\* File views
\* ------------------------------------------------------------------------
\* the step is a call of File::read
IsReadStep == budget' < budget /\ last'.op = "read"

\* C5: for a source handed to the archive at position 0, whatever calls of
\* files, next, read and seek came before, a File::read that returns Ok(n)
\* on a view at position p delivers the n source bytes at
\* [tar_offset + p, tar_offset + p + n), all of them inside the entry, moves
\* that view to p + n and changes neither another view nor the iterator.
C5_ReadDelivers ==
    [][(IsReadStep /\ last'.ret = "Ok") =>
         LET v == last'.view
             p == files[v].pos
             t == files[v].tar_offset
             n == last'.n
         IN  /\ Len(last'.data) = n
             /\ last'.data = Slice(Data, t + p, t + p + n)
             /\ p + n <= files[v].size
             /\ files' = [files EXCEPT ![v].pos = p + n]
             /\ <<done', offset', results', live'>> = <<done, offset, results, live>>
      ]_vars

\* the second view has just delivered bytes while the first view stands
\* inside its own entry after delivering some
C5_Witness ==
    /\ last.op = "read" /\ last.ret = "Ok" /\ last.view = 2 /\ last.n > 0
    /\ Len(files) = 2 /\ files[1].pos > 0 /\ files[2].pos = last.n

\* C6: every view has 0 <= pos <= size in every reachable state.
C6_PosInRange ==
    \A v \in 1..Len(files) : 0 <= files[v].pos /\ files[v].pos <= files[v].size

\* a seek has just put a view at the very end of a non-empty entry
C6_Witness ==
    /\ last.op = "seek" /\ last.ret = "Ok"
    /\ files[last.view].size > 0
    /\ files[last.view].pos = files[last.view].size

\* C7: the read File::read issues to the source starts at or after the
\* entry's tar_offset and ends at or before tar_offset + size.
C7_ReadsInsideEntry ==
    (last.op = "read" /\ last.req # <<>>) =>
        LET f == files[last.view] IN
        /\ f.tar_offset <= last.req[1]
        /\ last.req[1] + last.req[2] <= f.tar_offset + f.size

\* a read with a buffer longer than the entry asked the source for the 513
\* bytes of the entry and no more
C7_Witness ==
    /\ last.op = "read" /\ last.ret = "Ok"
    /\ files[last.view].size = 513
    /\ last.req = <<files[last.view].tar_offset, 513>>

\* C8: with a reliable source, when a view was read from position 0 until
\* read reported EndOfFile, rewound with seek(0, SeekSet) and read until
\* EndOfFile again, both passes delivered the same bytes, whatever was done
\* with other views and the iterator meanwhile.
C8_RewindRepeats ==
    \A v \in 1..Len(runs) :
        Len(runs[v].passes) = 2 => runs[v].passes[1] = runs[v].passes[2]

\* a view has been read through twice while the iterator went on to the
\* end of the archive and the other view delivered its data
C8_Witness ==
    \E v, w \in 1..Len(runs) :
        /\ v # w
        /\ Len(runs[v].passes) = 2 /\ Len(runs[v].passes[1]) > 0
        /\ files[w].pos > 0
        /\ Len(results) >= 3

\* C9: when a view was read from position 0 until read reported EndOfFile,
\* the calls delivered size() bytes in total.
C9_SizeIsBytesRead ==
    \A v \in 1..Len(runs) :
        \A k \in 1..Len(runs[v].passes) :
            Len(runs[v].passes[k]) = files[v].size

\* the step is a call of File::seek
IsSeekStep == budget' < budget /\ last'.op = "seek"

\* the position File::seek is asked for, as a number
Candidate(f, p, style) ==
    CASE style = "SeekSet" -> p
      [] style = "SeekCur" -> f.pos + p
      [] style = "SeekEnd" -> f.size + p

\* the step is File::seek(p, style) on view v: a seek step on v whose
\* outcome is the one File::seek computes for these arguments
SeekTook(v, p, style) ==
    /\ IsSeekStep
    /\ last'.view = v
    /\ \E r \in {FileSeek(files[v], p, style)} :
          /\ last'.ret = (IF r.ok THEN "Ok" ELSE "Err")
          /\ files'[v].pos = r.f.pos

\* C10: a File::seek whose candidate position is negative or greater than
\* size returns an error and leaves the view's pos as it was; one whose
\* candidate lies in [0, size] returns Ok and sets pos to the candidate.
\* (Every seek step is the call for some style and offset, and for whichever
\* style and offset it is the call, its outcome is the one stated.)
C10_SeekChecked ==
    [][IsSeekStep =>
         /\ \E arg \in SeekArgs : SeekTook(last'.view, arg[1], arg[2])
         /\ \A arg \in SeekArgs :
              SeekTook(last'.view, arg[1], arg[2]) =>
                 LET f == files[last'.view]
                     c == Candidate(f, arg[1], arg[2])
                 IN  IF c < 0 \/ c > f.size
                     THEN last'.ret = "Err" /\ files'[last'.view].pos = f.pos
                     ELSE last'.ret = "Ok" /\ files'[last'.view].pos = c
      ]_vars

\* a seek out of range has just failed on a view that stands inside its entry
C10_Witness ==
    /\ last.op = "seek" /\ last.ret = "Err"
    /\ files[last.view].pos > 0
    /\ files[last.view].pos < files[last.view].size

\* C11: a File::seek, successful or failing, changes the view's own pos at
\* most: the source's position, the archive's tracked offset, the iterator's
\* offset and done flag and every other view stay as they were.
C11_SeekIsLocal ==
    [][IsSeekStep =>
         /\ obj'.pos = obj.pos
         /\ pos' = pos
         /\ <<done', offset', live', results'>> = <<done, offset, live, results>>
         /\ files' = [files EXCEPT ![last'.view].pos = files'[last'.view].pos]
      ]_vars

\* a successful seek has moved a view to a place the source is not at
C11_Witness ==
    /\ last.op = "seek" /\ last.ret = "Ok"
    /\ files[last.view].pos > 0
    /\ obj.pos # files[last.view].tar_offset + files[last.view].pos
    /\ pos = obj.pos

\* C12: a File::read on a view with pos = size fails with EndOfFile, which is
\* not the malformed-archive error, issues no read to the source and moves
\* neither the source nor the archive's tracked offset, and leaves every
\* view and the iterator as they were.
C12_ReadAtEnd ==
    [][(IsReadStep /\ files[last'.view].pos = files[last'.view].size) =>
         /\ last'.ret = "Err"
         /\ last'.err = EndOfFile
         /\ last'.err # BadArchive
         /\ last'.req = <<>>
         /\ obj'.pos = obj.pos
         /\ pos' = pos
         /\ files' = files
         /\ <<done', offset', live', results'>> = <<done, offset, live, results>>
      ]_vars

\* a read of an empty entry has just reported EndOfFile while the source
\* stood somewhere else than at the entry's data
C12_Witness ==
    /\ last.op = "read" /\ last.ret = "Err" /\ last.err = EndOfFile
    /\ files[last.view].size = 0
    /\ obj.pos # files[last.view].tar_offset

\* ------------------------------------------------------------------------
\* The archive's tracked offset
\* ------------------------------------------------------------------------
\* the step is a call of Archive::files
IsFilesStep == last'.op = "files" /\ (budget' < budget \/ live' # live)
\* the step is a call of Files::next
IsNextStep == Len(results') = Len(results) + 1
\* what the latest call of next returned
LastResult == results[Len(results)]
\* the step is a call of the archive's own read
IsArchiveReadStep == budget' < budget /\ last'.op = "aread"

\* C13: when the source fails a seek or a read issued through the archive,
\* the caller gets the source's error and Archive.pos is what it was before
\* that seek or read; a seek that succeeds sets Archive.pos to the offset
\* asked for and a read that succeeds advances it by the bytes read.  Seen
\* at the calls: files() ends at 0 or, failing, where it was; File::read at
\* tar_offset + p + n, or at tar_offset + p when its read failed (with the
\* source's own failure, or EndOfFile from a source that has run out), or
\* where it was when its seek failed; next at the yielded entry's data, or after
\* the blocks read before the failing read, or where it was; the archive's
\* own read n bytes further, or where it was.
C13_TrackedOffset ==
    [][/\ IsFilesStep =>
            IF last'.ret = "Ok" THEN pos' = 0
            ELSE last'.err = SourceFailure /\ pos' = pos
       /\ (IsReadStep /\ files[last'.view].pos < files[last'.view].size) =>
            LET f == files[last'.view] IN
            IF last'.ret = "Ok" THEN pos' = f.tar_offset + f.pos + last'.n
            ELSE IF last'.req = <<>>
                 THEN last'.err = SourceFailure /\ pos' = pos
                 ELSE /\ pos' = f.tar_offset + f.pos
                      /\ IF budget' = budget - 2
                         THEN last'.err = SourceFailure
                         ELSE /\ last'.err = EndOfFile
                              /\ last'.req[1] >= Len(Data)
       /\ (IsNextStep /\ ~done) =>
            LET r == results'[Len(results')] IN
            /\ r.ret = "Ok" => pos' = r.tar_offset
            /\ r.fault = "seek" => r.ret = "Err" /\ r.err = SourceFailure /\ pos' = pos
            /\ r.fault = "err" =>
                  /\ r.ret = "Err" /\ r.err = SourceFailure
                  /\ pos' = offset + r.cnt * BlockSize
       /\ IsArchiveReadStep =>
            IF last'.ret = "Ok"
            THEN pos' = pos + last'.n /\ obj'.pos = obj.pos + last'.n
            ELSE /\ pos' = pos
                 /\ obj'.pos = obj.pos
                 /\ IF budget' = budget - 2
                    THEN last'.err = SourceFailure
                    ELSE last'.err = EndOfFile /\ obj.pos >= Len(Data)
      ]_vars

\* a read of the first view has just been failed by the source after the
\* archive had to move back to the view's data
C13_Witness ==
    /\ last.op = "read" /\ last.ret = "Err" /\ last.err = SourceFailure
    /\ last.req # <<>> /\ last.view = 1
    /\ Len(results) >= 2
    /\ pos = files[1].tar_offset

\* ------------------------------------------------------------------------
\* Failures inside next
\* ------------------------------------------------------------------------
\* the call of next that meets what is wrong with the layout (0: none):
\*   12: the second block has 10 bytes       14, 15, 16: the size field of
\*   18: the first header's name was altered             the first header does
\*   19: its checksum field is no octal number           not parse
BadCall(l) ==
    CASE l = 12 -> 2
      [] l \in {14, 15, 16, 18, 19} -> 1
      [] OTHER -> 0
\* the call of next during which the source runs out (0: none)
\*   10: after one all-zero block     11: right after the entry's data
EofCall(l) == IF l \in {10, 11} THEN 2 ELSE 0

\* C14: a call of next in which the source fails the seek or a read, or
\* returns a block of fewer than 512 bytes, or which meets a header whose
\* checksum does not match or whose checksum or size field does not parse,
\* returns Some(Err), and done is set when it has returned; the short block
\* and the bad header are reported as the bad-archive error.
C14_FailuresEnd ==
    \A i \in 1..Len(results) :
        /\ results[i].fault # "none" => results[i].ret = "Err"
        /\ results[i].fault = "short" => results[i].err = BadArchive
        /\ (Undisturbed(i) /\ i = BadCall(layout)) =>
              results[i].ret = "Err" /\ results[i].err = BadArchive
        /\ (Undisturbed(i) /\ i = EofCall(layout)) =>
              results[i].ret = "Err" /\ results[i].err = EndOfFile
        /\ (results[i].ret = "Err" /\ i = Len(results)) => done

\* after an entry was yielded, a block came back short, and the call
\* returned the bad-archive error and left the iterator done
C14_Witness ==
    /\ Len(results) >= 2
    /\ results[1].ret = "Ok"
    /\ LastResult.fault = "short"
    /\ LastResult.ret = "Err" /\ LastResult.err = BadArchive
    /\ done

\* ------------------------------------------------------------------------
\* Offsets
\* ------------------------------------------------------------------------
\* the iterator's offset before its i-th call, told from what the calls
\* before it yielded
OffsetBefore(i) ==
    IF i = 1 THEN 0
    ELSE results[i - 1].tar_offset + PaddedLen(results[i - 1].size)
\* the block of the source at absolute offset h
BlockAt(h) == Slice(Data, h, h + BlockSize)

\* C15: an entry yielded by next has its header block at an offset h that
\* is the iterator's offset before the call, or one all-zero block further,
\* its tar_offset is h + 512 and the iterator's offset after the call is
\* h + 512 + size rounded up to whole blocks; the iterator's offset is a
\* multiple of 512 in every state; and the two all-zero blocks that end
\* the archive are those at the iterator's offset, behind the data region
\* of the entry yielded before, however many zero bytes that region holds.
C15_BlockAligned ==
    /\ offset % BlockSize = 0
    /\ \A i \in 1..Len(results) :
          /\ results[i].ret = "Ok" =>
                LET h == results[i].tar_offset - BlockSize IN
                /\ h \in {OffsetBefore(i), OffsetBefore(i) + BlockSize}
                /\ h # OffsetBefore(i) => BlockAt(OffsetBefore(i)) = Zeros(BlockSize)
                /\ truncate(Slice(BlockAt(h), 0, NameEnd)) = results[i].name
                /\ i = Len(results) =>
                      offset = h + BlockSize + PaddedLen(results[i].size)
          /\ (results[i].ret = "None" /\ results[i].cnt = 2 /\ i = Len(results)) =>
                /\ offset = OffsetBefore(i) + 2 * BlockSize
                /\ BlockAt(OffsetBefore(i)) = Zeros(BlockSize)
                /\ BlockAt(OffsetBefore(i) + BlockSize) = Zeros(BlockSize)

\* the entry behind an entry of 1024 zero bytes has been yielded
C15_Witness ==
    /\ Len(results) = 2
    /\ results[1].ret = "Ok" /\ results[1].size = 1024
    /\ results[2].ret = "Ok" /\ results[2].name = NameA
    /\ results[2].tar_offset = 3 * BlockSize + BlockSize
    /\ offset = 5 * BlockSize

\* ------------------------------------------------------------------------
\* Which blocks are taken as headers
\* ------------------------------------------------------------------------
\* the sum the format prescribes for a header block: its bytes outside the
\* checksum field plus eight spaces for the field
BlockSum(h) ==
    SumBytes(h, 0, CksumStart) + SumBytes(h, CksumEnd, BlockSize) + 8 * 32
\* the block's checksum field stands for the block's sum
SumMatches(h) == FieldValue(h).some /\ FieldValue(h).val = BlockSum(h)
\* the block's size field, up to its first NUL, is an octal number
SizeParses(h) ==
    LET t == truncate(Slice(h, SizeStart, SizeEnd)) IN
    IsUtf8(t) /\ from_str_radix8(t).some
\* what the call that scanned the altered header returned
PokedResult == results[poke.seg]

\* C16 as stated: the block is yielded as an entry exactly when its checksum
\* field stands for the sum of its other bytes plus 256, and is refused
\* with the bad-archive error otherwise.
C16_AcceptedIffSum ==
    ScannedPoke =>
        /\ PokedResult.ret = "Ok" <=> SumMatches(PokedHeader)
        /\ PokedResult.ret # "Ok" =>
              PokedResult.ret = "Err" /\ PokedResult.err = BadArchive

\* C16: a non-zero block passes the checksum test of next exactly when
\* its checksum field (up to the first NUL, trimmed, read as octal) stands
\* for the sum of its bytes at [0,148) and [156,512) plus 256, whatever
\* bytes the field stores; a block that passes is yielded as an entry if
\* its size field parses as well, and every block that is not yielded is
\* refused with the bad-archive error.
C16_AcceptedIffSumAndSize ==
    ScannedPoke =>
        /\ PokedResult.ret = "Ok" <=>
              (SumMatches(PokedHeader) /\ SizeParses(PokedHeader))
        /\ PokedResult.ret # "Ok" =>
              PokedResult.ret = "Err" /\ PokedResult.err = BadArchive

\* a header whose checksum field had its last byte altered has been yielded
\* as an entry
C16_Witness ==
    /\ ScannedPoke /\ poke.at = CksumEnd - 1 /\ poke.to = 255
    /\ SumMatches(PokedHeader)
    /\ PokedResult.ret = "Ok"

\* ------------------------------------------------------------------------
\* Where an iterator starts
\* ------------------------------------------------------------------------
\* C17: the first call of next on an iterator reads the block at offset 0 of
\* the source, so that for an archive that starts with an entry it yields
\* that entry, with its data at offset 512, wherever the source stood when
\* it was handed to Archive::new and whatever was done with the archive
\* before files() was called.
C17_StartsAtZero ==
    (Len(results) >= 1 /\ Segs[1].kind = "entry" /\ Segs[1].good) =>
        /\ results[1].ret = "Ok"
        /\ results[1].name = Segs[1].name
        /\ results[1].size = Segs[1].size
        /\ results[1].tar_offset = BlockSize

\* ------------------------------------------------------------------------
\* Size fields written with spaces
\* ------------------------------------------------------------------------
\* the number a size field stands for once trimmed
TrimmedSize(h) ==
    LET t == truncate(Slice(h, SizeStart, SizeEnd)) IN
    IF IsUtf8(t) THEN from_str_radix8(trim(t)) ELSE [some |-> FALSE, val |-> 0]
\* the size field holds a space
SpacePadded(h) == \E i \in (SizeStart + 1)..SizeEnd : h[i] = 32

\* C18: when the first block of the source is a header with a correct
\* checksum whose size field is an octal number padded or terminated with
\* spaces, the first call of next (the source not misbehaving) yields an
\* entry whose size is that number.
C18_SpacePaddedSize ==
    (/\ Len(results) >= 1 /\ Undisturbed(1)
     /\ Len(Data) >= BlockSize
     /\ SpacePadded(BlockAt(0))
     /\ SumMatches(BlockAt(0))
     /\ TrimmedSize(BlockAt(0)).some) =>
        /\ results[1].ret = "Ok"
        /\ results[1].size = TrimmedSize(BlockAt(0)).val

\* ------------------------------------------------------------------------
\* The tracked offset and the source
\* ------------------------------------------------------------------------
\* C19: for a source handed to Archive::new at position 0 whose failing
\* seeks and reads leave its position alone, Archive.pos is the source's
\* position in every reachable state, and so every read File::read issues
\* reaches the source at tar_offset plus the view's position, also when the
\* seek before it was skipped.
C19_PosTracksSource ==
    /\ pos = obj.pos
    /\ (last.op = "read" /\ last.req # <<>>) =>
          last.req[1] = files[last.view].tar_offset + files[last.view].pos - last.n

\* the first view was read right after next had yielded it: the archive
\* stood at the view's data already and the seek was skipped
C19_Witness ==
    /\ last.op = "read" /\ last.ret = "Ok" /\ last.view = 1 /\ last.n > 0
    /\ Len(results) = 1
    /\ budget = MaxOps - 1
    /\ last.req[1] = files[1].tar_offset
    /\ pos = obj.pos

\* ------------------------------------------------------------------------
\* Termination
\* ------------------------------------------------------------------------
\* C20: every call of next that yields an entry moves the iterator's offset
\* on by at least one block, and a caller that keeps calling next on its
\* iterator is eventually returned None.
C20_EventuallyNone ==
    /\ [][(IsNextStep /\ results'[Len(results')].ret = "Ok") =>
             offset' >= offset + BlockSize]_vars
    /\ (live ~> (Len(results) > 0 /\ LastResult.ret = "None"))

\* two entries lying a zero block apart were yielded and the call after
\* them returned None
C20_Witness ==
    /\ Len(results) = 3
    /\ results[1].ret = "Ok" /\ results[2].ret = "Ok" /\ results[3].ret = "None"
    /\ results[2].tar_offset = results[1].tar_offset + 3 * BlockSize
    /\ done

====
